---- MODULE Spec2Model ----
(***************************************************************************)
(* Model of the Markdown -> HTML conversion core of src/src/node.py.       *)
(* A Python str is a sequence of one-character strings; an optional value  *)
(* (None or a value) is a sequence of length 0 or 1.                       *)
(***************************************************************************)
EXTENDS Integers, Sequences, FiniteSets, TLC

VARIABLES
    call,            \* which entry point runs: "text_to_textnodes" or "markdown_to_html_node"
    text,            \* argument of text_to_textnodes
    text_nodes,      \* local text_nodes of text_to_textnodes
    stage,           \* number of stages of text_to_textnodes already applied
    markdown,        \* argument of markdown_to_html_node
    markdown_blocks, \* local markdown_blocks of markdown_to_html_node
    block_index,     \* position of the for loop over markdown_blocks
    block_nodes,     \* local block_nodes of markdown_to_html_node
    pc,              \* where the call is: "start", "stages", "loop", "returned", "raised"
    result,          \* the returned value (optional)
    error,           \* the message of the raised ValueError (optional)
    stdout,          \* what print() has written
    html_node,       \* the node whose to_html runs
    scan_type,       \* argument text_type of split_image_or_link_nodes
    scan             \* the locals of the while loop of split_image_or_link_nodes

vars == <<call, text, text_nodes, stage, markdown, markdown_blocks,
          block_index, block_nodes, pc, result, error, stdout, html_node,
          scan_type, scan>>

----------------------------------------------------------------------------
(* Bounds of the input sets *)

MaxSegs == 3
MaxLines == 3
MaxItems == 11
MaxChildren == 2

----------------------------------------------------------------------------
(* Python values *)

\* The backtick character (a TLA+ string cannot hold one)
Backtick == "BACKTICK"

None == <<>>
Some(x) == <<x>>

Min(a, b) == IF a < b THEN a ELSE b
Max(a, b) == IF a > b THEN a ELSE b

\* s[a:b] for non-negative a and b
PySlice(s, a, b) ==
    LET lo == Min(a, Len(s))
        hi == Min(b, Len(s))
    IN  IF lo >= hi THEN <<>> ELSE SubSeq(s, lo + 1, hi)

\* s[i], where a negative i counts from the end
PyIndex(s, i) == IF i < 0 THEN s[Len(s) + i + 1] ELSE s[i + 1]

\* s.startswith(p)
StartsWith(s, p) == Len(s) >= Len(p) /\ SubSeq(s, 1, Len(p)) = p

RECURSIVE SplitFrom(_, _, _, _, _)
SplitFrom(s, d, start, i, maxsplit) ==
    IF maxsplit = 0 \/ i + Len(d) > Len(s)
    THEN << PySlice(s, start, Len(s)) >>
    ELSE IF PySlice(s, i, i + Len(d)) = d
         THEN << PySlice(s, start, i) >>
              \o SplitFrom(s, d, i + Len(d), i + Len(d), maxsplit - 1)
         ELSE SplitFrom(s, d, start, i + 1, maxsplit)

\* s.split(d): the pieces between the left-to-right non-overlapping occurrences of d
Split(s, d) == SplitFrom(s, d, 0, 0, -1)

\* s.split(d, maxsplit)
SplitMax(s, d, maxsplit) == SplitFrom(s, d, 0, 0, maxsplit)

RECURSIVE Join(_, _)
\* sep.join(parts)
Join(parts, sep) ==
    IF parts = <<>> THEN <<>>
    ELSE IF Len(parts) = 1 THEN parts[1]
    ELSE parts[1] \o sep \o Join(Tail(parts), sep)

Whitespace == {" ", "\n"}

RECURSIVE LStrip(_)
LStrip(s) == IF s # <<>> /\ s[1] \in Whitespace THEN LStrip(Tail(s)) ELSE s

RECURSIVE RStrip(_)
RStrip(s) ==
    IF s # <<>> /\ s[Len(s)] \in Whitespace THEN RStrip(SubSeq(s, 1, Len(s) - 1)) ELSE s

\* s.strip()
Strip(s) == RStrip(LStrip(s))

Digit(d) == <<"0", "1", "2", "3", "4", "5", "6", "7", "8", "9">>[d + 1]

RECURSIVE Str(_)
\* str(n) of a non-negative int, as f"{i}" formats it
Str(n) == IF n < 10 THEN << Digit(n) >> ELSE Str(n \div 10) \o << Digit(n % 10) >>

----------------------------------------------------------------------------
(* TextNode *)

TEXT == "text"
BOLD_TEXT == "bold"
ITALIC_TEXT == "italic"
CODE_TEXT == "code"
LINK_TEXT == "link"
IMAGE_TEXT == "image"

TextNode(t, type, url) == [text |-> t, text_type |-> type, url |-> url]

UnclosedMsg == "invalid markdown, formatted section not closed"
MalformedMsg == "invalid markdown"
TooManyMsg == "Too many pound symbols for a heading"

\* The outcome of a call: the returned value, or the raised error, and what was printed
Returned(v) == [error |-> None, value |-> v, printed |-> <<>>]
Raised(msg, printed) == [error |-> Some(msg), value |-> <<>>, printed |-> printed]

----------------------------------------------------------------------------
(* split_nodes_delimiter *)

RECURSIVE DelimiterPieces(_, _, _)
\* the loop over range(len(split_text)), from index i on
DelimiterPieces(split_text, i, text_type) ==
    IF i >= Len(split_text) THEN <<>>
    ELSE IF PyIndex(split_text, i) = <<>>
         THEN DelimiterPieces(split_text, i + 1, text_type)
         ELSE IF i % 2 = 0
              THEN << TextNode(PyIndex(split_text, i), TEXT, None) >>
                   \o DelimiterPieces(split_text, i + 1, text_type)
              ELSE << TextNode(PyIndex(split_text, i), text_type, None) >>
                   \o DelimiterPieces(split_text, i + 1, text_type)

\* DelimiterNode without the check of the number of pieces
DelimiterNode_unchecked(split_text, text_type) ==
    Returned(DelimiterPieces(split_text, 0, text_type))

\* The body of the for loop for one Plain node, given its split_text
DelimiterNode(split_text, text_type) ==
    IF Len(split_text) % 2 = 0
    THEN Raised(UnclosedMsg, <<>>)
    ELSE Returned(DelimiterPieces(split_text, 0, text_type))

RECURSIVE DelimiterLoop(_, _, _, _)

\* After the body of the loop for the first of old_nodes had outcome r: the
\* raise leaves the function, new_nodes extend resulting_nodes
DelimiterNext(old_nodes, delimiter, text_type, resulting_nodes, r) ==
    IF r.error # None THEN r
    ELSE DelimiterLoop(Tail(old_nodes), delimiter, text_type, resulting_nodes \o r.value)

\* the loop over old_nodes, with resulting_nodes as built so far
DelimiterLoop(old_nodes, delimiter, text_type, resulting_nodes) ==
    IF old_nodes = <<>> THEN Returned(resulting_nodes)
    ELSE IF Head(old_nodes).text_type # TEXT
    THEN DelimiterLoop(Tail(old_nodes), delimiter, text_type,
                       Append(resulting_nodes, Head(old_nodes)))
    ELSE DelimiterNext(old_nodes, delimiter, text_type, resulting_nodes,
                       DelimiterNode(Split(Head(old_nodes).text, delimiter), text_type))

split_nodes_delimiter(old_nodes, delimiter, text_type) ==
    DelimiterLoop(old_nodes, delimiter, text_type, <<>>)

----------------------------------------------------------------------------
(* split_image_or_link_nodes *)

start_delimiter == "["

\* The locals of the scan of one node, as set before the while loop
ScanInit ==
    [text_index |-> 0, start_index |-> 0, in_link_text |-> FALSE,
     in_link_url |-> FALSE, current_link_text |-> <<>>, current_nodes |-> <<>>]

\* NextChar that leaves the index where it is
NextChar_stalls(st) == st

\* text_index += 1, in the branches that do nothing else
NextChar(st) == [st EXCEPT !.text_index = st.text_index + 1]

\* One iteration of the while loop over node_text
ScanStep(node_text, text_type, st) ==
    IF st.in_link_text
    THEN IF PyIndex(node_text, st.text_index) = "]"
         THEN [st EXCEPT !.current_link_text =
                             PySlice(node_text, st.start_index, st.text_index),
                         !.in_link_text = FALSE,
                         !.in_link_url = TRUE,
                         !.start_index = st.text_index + 2,
                         !.text_index = st.text_index + 3]
         ELSE NextChar(st)
    ELSE IF st.in_link_url
    THEN IF PyIndex(node_text, st.text_index) = ")"
         THEN [st EXCEPT !.current_nodes =
                             Append(st.current_nodes,
                                    TextNode(st.current_link_text, text_type,
                                             Some(PySlice(node_text, st.start_index,
                                                          st.text_index)))),
                         !.in_link_url = FALSE,
                         !.start_index = st.text_index + 1,
                         !.text_index = st.text_index + 1]
         ELSE NextChar(st)
    ELSE IF PyIndex(node_text, st.text_index) = start_delimiter /\ text_type = LINK_TEXT
    THEN [st EXCEPT !.current_nodes =
                        IF st.start_index # st.text_index
                        THEN Append(st.current_nodes,
                                    TextNode(PySlice(node_text, st.start_index,
                                                     st.text_index), TEXT, None))
                        ELSE st.current_nodes,
                    !.in_link_text = TRUE,
                    !.start_index = st.text_index + 1,
                    !.text_index = st.text_index + 2]
    ELSE IF PyIndex(node_text, st.text_index) = start_delimiter /\ text_type = IMAGE_TEXT
    THEN IF PyIndex(node_text, st.text_index - 1) = "!"
         THEN [st EXCEPT !.current_nodes =
                             IF st.text_index - st.start_index > 1
                             THEN Append(st.current_nodes,
                                         TextNode(PySlice(node_text, st.start_index,
                                                          st.text_index - 1), TEXT, None))
                             ELSE st.current_nodes,
                         !.in_link_text = TRUE,
                         !.start_index = st.text_index + 1,
                         !.text_index = st.text_index + 2]
         ELSE NextChar(st)
    ELSE NextChar(st)

RECURSIVE ScanLoop(_, _, _)
\* while text_index < len(node.text)
ScanLoop(node_text, text_type, st) ==
    IF st.text_index < Len(node_text)
    THEN ScanLoop(node_text, text_type, ScanStep(node_text, text_type, st))
    ELSE st

\* After the while loop, in the final state st of the scan of node: the flush of
\* the remaining text and the check that the scan ended outside a link
ScanEnd(node, st) ==
    IF st.in_link_text \/ st.in_link_url
    THEN Raised(MalformedMsg, << node >>)
    ELSE IF st.text_index - st.start_index > 0
    THEN Returned(Append(st.current_nodes,
                         TextNode(PySlice(node.text, st.start_index, st.text_index),
                                  TEXT, None)))
    ELSE Returned(st.current_nodes)

\* The body of the for loop for one Plain node
ScanNode(node, text_type) == ScanEnd(node, ScanLoop(node.text, text_type, ScanInit))

RECURSIVE ScanNodes(_, _, _)

\* After the body of the loop for the first of old_nodes had outcome r: the
\* raise leaves the function, current_nodes extend new_nodes
ScanNext(old_nodes, text_type, new_nodes, r) ==
    IF r.error # None THEN r
    ELSE ScanNodes(Tail(old_nodes), text_type, new_nodes \o r.value)

\* the loop over old_nodes, with new_nodes as built so far
ScanNodes(old_nodes, text_type, new_nodes) ==
    IF old_nodes = <<>> THEN Returned(new_nodes)
    ELSE IF Head(old_nodes).text_type # TEXT
    THEN ScanNodes(Tail(old_nodes), text_type, Append(new_nodes, Head(old_nodes)))
    ELSE ScanNext(old_nodes, text_type, new_nodes, ScanNode(Head(old_nodes), text_type))

\* split_image_or_link_nodes that keeps only what it makes of the Plain nodes
split_image_or_link_nodes_plain_only(old_nodes, text_type) ==
    ScanNodes(SelectSeq(old_nodes, LAMBDA node : node.text_type = TEXT), text_type, <<>>)

split_image_or_link_nodes(old_nodes, text_type) == ScanNodes(old_nodes, text_type, <<>>)

----------------------------------------------------------------------------
(* text_to_textnodes *)

\* The stages in the order text_to_textnodes applies them
StageCount == 5

ApplyStage(n, nodes) ==
    CASE n = 1 -> split_nodes_delimiter(nodes, <<"*", "*">>, BOLD_TEXT)
      [] n = 2 -> split_nodes_delimiter(nodes, <<"_">>, ITALIC_TEXT)
      [] n = 3 -> split_nodes_delimiter(nodes, << Backtick >>, CODE_TEXT)
      [] n = 4 -> split_image_or_link_nodes(nodes, IMAGE_TEXT)
      [] n = 5 -> split_image_or_link_nodes(nodes, LINK_TEXT)

RECURSIVE RunStages(_, _)

\* After stage n had outcome r: the raise leaves text_to_textnodes, the
\* returned nodes go to the next stage
AfterStage(n, r) == IF r.error # None THEN r ELSE RunStages(n + 1, r.value)

\* the stages from number n on, applied to nodes
RunStages(n, nodes) ==
    IF n > StageCount THEN Returned(nodes) ELSE AfterStage(n, ApplyStage(n, nodes))

text_to_textnodes(t) == RunStages(1, << TextNode(t, TEXT, None) >>)

----------------------------------------------------------------------------
(* Inputs of text_to_textnodes: up to MaxSegs segments of inline markdown *)

InlinePool ==
    { <<"a">>, <<" ">>, <<"!">>, <<"*", "*">>, <<"_">>, << Backtick >>,
      <<"*", "*", "b", "*", "*">>, <<"_", "i", "_">>,
      <<"[", "a", "]", "(", "u", ")">>,
      <<"[", "]", "(", "u", ")">>,
      <<"[", "a", "]", "(", ")">>,
      <<"[", "a", "]", "x">>,
      <<"[">>, <<")">> }

RECURSIVE Concat(_)
Concat(parts) == IF parts = <<>> THEN <<>> ELSE Head(parts) \o Concat(Tail(parts))

SegSeqs(pool, n) == UNION { [1..k -> pool] : k \in 0..n }

InlineTexts == { Concat(segs) : segs \in SegSeqs(InlinePool, MaxSegs) }

----------------------------------------------------------------------------
(* The call text_to_textnodes(text), one step per stage *)

InitInline ==
    /\ call = "text_to_textnodes"
    /\ text \in InlineTexts
    /\ text_nodes = << TextNode(text, TEXT, None) >>
    /\ stage = 0
    /\ markdown = <<>>
    /\ markdown_blocks = <<>>
    /\ block_index = 0
    /\ block_nodes = <<>>
    /\ pc = "stages"
    /\ result = None
    /\ error = None
    /\ stdout = <<>>
    /\ html_node = <<>>
    /\ scan_type = TEXT
    /\ scan = ScanInit

\* The step of text_to_textnodes at stage n with outcome r; the last stage is
\* followed by the return
StageStep(n, r) ==
    /\ IF r.error # None
       THEN /\ pc' = "raised"
            /\ error' = r.error
            /\ stdout' = stdout \o r.printed
            /\ UNCHANGED <<text_nodes, stage, result>>
       ELSE /\ text_nodes' = r.value
            /\ stage' = n
            /\ pc' = IF n = StageCount THEN "returned" ELSE "stages"
            /\ result' = IF n = StageCount THEN Some(r.value) ELSE None
            /\ UNCHANGED <<error, stdout>>
    /\ UNCHANGED <<call, text, markdown, markdown_blocks, block_index, block_nodes,
                   html_node,
                   scan_type, scan>>

\* text_to_textnodes has applied n stages and has not raised
AtStage(n) == call = "text_to_textnodes" /\ pc = "stages" /\ stage = n

BoldStage ==
    /\ AtStage(0)
    /\ StageStep(1, split_nodes_delimiter(text_nodes, <<"*", "*">>, BOLD_TEXT))

ItalicStage ==
    /\ AtStage(1)
    /\ StageStep(2, split_nodes_delimiter(text_nodes, <<"_">>, ITALIC_TEXT))

CodeStage ==
    /\ AtStage(2)
    /\ StageStep(3, split_nodes_delimiter(text_nodes, << Backtick >>, CODE_TEXT))

ImageStage ==
    /\ AtStage(3)
    /\ StageStep(4, split_image_or_link_nodes(text_nodes, IMAGE_TEXT))

LinkStage ==
    /\ AtStage(4)
    /\ StageStep(5, split_image_or_link_nodes(text_nodes, LINK_TEXT))

NextInline == BoldStage \/ ItalicStage \/ CodeStage \/ ImageStage \/ LinkStage

SpecInline == InitInline /\ [][NextInline]_vars

----------------------------------------------------------------------------
(* HTMLNode, LeafNode, ParentNode and text_node_to_html_node *)

\* props: an optional sequence of <<key, value>> in insertion order
LeafNode(tag, value, props) ==
    [class |-> "LeafNode", tag |-> tag, value |-> value, children |-> None, props |-> props]

ParentNode(tag, children, props) ==
    [class |-> "ParentNode", tag |-> tag, value |-> None, children |-> children,
     props |-> props]

\* TextType has no member beyond these six, so the final raise is not reached
text_node_to_html_node(text_node) ==
    CASE text_node.text_type = TEXT -> LeafNode(None, Some(text_node.text), None)
      [] text_node.text_type = BOLD_TEXT -> LeafNode(Some("b"), Some(text_node.text), None)
      [] text_node.text_type = ITALIC_TEXT -> LeafNode(Some("i"), Some(text_node.text), None)
      [] text_node.text_type = CODE_TEXT ->
             LeafNode(Some("code"), Some(text_node.text), None)
      [] text_node.text_type = LINK_TEXT ->
             LeafNode(Some("a"), Some(text_node.text), Some(<< <<"href", text_node.url>> >>))
      [] text_node.text_type = IMAGE_TEXT ->
             LeafNode(Some("img"), Some(<<>>),
                      Some(<< <<"src", text_node.url>>, <<"alt", Some(text_node.text)>> >>))

\* [text_node_to_html_node(node) for node in text_nodes]
ChildNodes(nodes) == [i \in 1..Len(nodes) |-> text_node_to_html_node(nodes[i])]

----------------------------------------------------------------------------
(* Block_Type, block_to_block_type and markdown_to_blocks *)

HEADING == "heading"
CODE == "code"
QUOTE == "quote"
ULIST == "unordered_list"
OLIST == "ordered_list"
PARAGRAPH == "paragraph"

NL == <<"\n">>
Fence == << Backtick, Backtick, Backtick >>

\* "#" * n + " "
HeadingPrefix(n) == [i \in 1..n |-> "#"] \o <<" ">>

\* block_to_block_type with a numbered-list loop that never increments i
block_to_block_type_no_increment(markdown_block) ==
    LET blocks == Split(markdown_block, NL)
    IN  IF \E n \in 1..6 : StartsWith(markdown_block, HeadingPrefix(n))
        THEN HEADING
        ELSE IF Len(blocks) > 1 /\ StartsWith(blocks[1], Fence)
                /\ StartsWith(blocks[Len(blocks)], Fence)
        THEN CODE
        ELSE IF StartsWith(markdown_block, <<">">>)
        THEN IF \E k \in 1..Len(blocks) : ~StartsWith(blocks[k], <<">">>)
             THEN PARAGRAPH
             ELSE QUOTE
        ELSE IF StartsWith(markdown_block, <<"-", " ">>)
        THEN IF \E k \in 1..Len(blocks) : ~StartsWith(blocks[k], <<"-", " ">>)
             THEN PARAGRAPH
             ELSE ULIST
        ELSE IF StartsWith(markdown_block, <<"1", ".", " ">>)
        THEN IF \E k \in 1..Len(blocks) : ~StartsWith(blocks[k], Str(1) \o <<".", " ">>)
             THEN PARAGRAPH
             ELSE OLIST
        ELSE PARAGRAPH

block_to_block_type(markdown_block) ==
    LET blocks == Split(markdown_block, NL)
    IN  IF \E n \in 1..6 : StartsWith(markdown_block, HeadingPrefix(n))
        THEN HEADING
        ELSE IF Len(blocks) > 1 /\ StartsWith(blocks[1], Fence)
                /\ StartsWith(blocks[Len(blocks)], Fence)
        THEN CODE
        ELSE IF StartsWith(markdown_block, <<">">>)
        THEN IF \E k \in 1..Len(blocks) : ~StartsWith(blocks[k], <<">">>)
             THEN PARAGRAPH
             ELSE QUOTE
        ELSE IF StartsWith(markdown_block, <<"-", " ">>)
        THEN IF \E k \in 1..Len(blocks) : ~StartsWith(blocks[k], <<"-", " ">>)
             THEN PARAGRAPH
             ELSE ULIST
        ELSE IF StartsWith(markdown_block, <<"1", ".", " ">>)
        THEN IF \E k \in 1..Len(blocks) : ~StartsWith(blocks[k], Str(k) \o <<".", " ">>)
             THEN PARAGRAPH
             ELSE OLIST
        ELSE PARAGRAPH

markdown_to_blocks(md) ==
    LET blocks == Split(md, <<"\n", "\n">>)
        kept == SelectSeq(blocks, LAMBDA block : block # <<>>)
    IN  [i \in 1..Len(kept) |-> Strip(kept[i])]

----------------------------------------------------------------------------
(* markdown_to_html_node: the branches of the loop over the blocks *)

\* the for loop that counts the leading "#" of a heading block
RECURSIVE HeadingCount(_)
HeadingCount(block) ==
    IF block # <<>> /\ Head(block) = "#" THEN 1 + HeadingCount(Tail(block)) ELSE 0

\* HeadingTag that ignores the count
HeadingTag_h1(heading_count) == "h1"

\* f"h{heading_count}"
HeadingTag(heading_count) == <<"h0", "h1", "h2", "h3", "h4", "h5", "h6">>[heading_count + 1]

\* A Parent with the given tag over the leaves of the text nodes that r
\* returned, unless r raised
LeafParent(tag, r) ==
    IF r.error # None THEN r
    ELSE Returned(ParentNode(Some(tag), Some(ChildNodes(r.value)), None))

\* A Parent with the given tag over the leaves of text_to_textnodes(t)
InlineParent(tag, t) == LeafParent(tag, text_to_textnodes(t))

\* The heading branch, given the number of leading "#"
HeadingNode(block, heading_count) ==
    IF heading_count > 6
    THEN Raised(TooManyMsg, <<>>)
    ELSE InlineParent(HeadingTag(heading_count),
                      PySlice(block, heading_count + 1, Len(block)))

HeadingBlock(block) == HeadingNode(block, HeadingCount(block))

CodeBlock(block) ==
    LET code_text == PySlice(block, 4, Max(0, Len(block) - 3))
        child_node == text_node_to_html_node(TextNode(code_text, TEXT, None))
        code_node == ParentNode(Some("code"), Some(<< child_node >>), None)
    IN  Returned(ParentNode(Some("pre"), Some(<< code_node >>), None))

QuoteBlock(block) ==
    LET lines == Split(block, NL)
        quote_text_lines == [i \in 1..Len(lines) |-> PySlice(lines[i], 2, Len(lines[i]))]
    IN  InlineParent("blockquote", Join(quote_text_lines, <<" ">>))

\* LineText that takes the marker of a numbered line to be three characters
LineText_one_digit(list_line, is_ordered) ==
    IF is_ordered
    THEN PySlice(list_line, 3, Len(list_line))
    ELSE PySlice(list_line, 2, Len(list_line))

\* the text of a list line after its marker
LineText(list_line, is_ordered) ==
    IF is_ordered
    THEN SplitMax(list_line, <<".", " ">>, 1)[2]
    ELSE PySlice(list_line, 2, Len(list_line))

RECURSIVE ListItems(_, _, _)

\* After the body of the loop for the first of list_lines had outcome r: the
\* raise leaves the function, the li node is appended to list_items
ListNext(list_lines, is_ordered, list_items, r) ==
    IF r.error # None THEN r
    ELSE ListItems(Tail(list_lines), is_ordered, Append(list_items, r.value))

\* the loop over list_lines, with list_items as built so far
ListItems(list_lines, is_ordered, list_items) ==
    IF list_lines = <<>> THEN Returned(list_items)
    ELSE ListNext(list_lines, is_ordered, list_items,
                  InlineParent("li", LineText(Head(list_lines), is_ordered)))

\* A Parent with the given tag over the li nodes that the loop r returned
ListParent(tag, r) ==
    IF r.error # None THEN r ELSE Returned(ParentNode(Some(tag), Some(r.value), None))

\* The branch of a list block
ListBlock(tag, block, is_ordered) ==
    ListParent(tag, ListItems(Split(block, NL), is_ordered, <<>>))

OListBlock(block) == ListBlock("ol", block, TRUE)

UListBlock(block) == ListBlock("ul", block, FALSE)

ParagraphBlock(block) == InlineParent("p", Join(Split(block, NL), <<" ">>))

----------------------------------------------------------------------------
(* Inputs of markdown_to_html_node: up to MaxLines lines joined by newlines, *)
(* and numbered lists of up to MaxItems items                               *)

LinePool ==
    { <<>>, <<" ">>, <<"x">>, <<"*", "*", "x">>,
      <<"#", " ", "a">>, <<"#", "#", " ", "_", "a", "_">>,
      <<"#", "#", "#", "#", "#", "#", "#", " ", "a">>,
      Fence, Fence \o <<"p">>,
      <<">", " ", "q">>,
      <<"-", " ", "!", "[", "i", "]", "(", "u", ")">>,
      <<"1", ".", " ", "a">>, <<"2", ".", " ", "b", ".", " ", "c">>,
      <<"3", ".", " ", "a">> }

LineDocs == { Join(lines, NL) : lines \in SegSeqs(LinePool, MaxLines) \ {<<>>} }

NumberedList(n) == Join([i \in 1..n |-> Str(i) \o <<".", " ", "a">>], NL)

ListDocs == { NumberedList(n) : n \in 1..MaxItems }

----------------------------------------------------------------------------
(* The call markdown_to_html_node(markdown) *)

Init ==
    /\ call = "markdown_to_html_node"
    /\ markdown \in LineDocs \cup ListDocs
    /\ markdown_blocks = <<>>
    /\ block_index = 0
    /\ block_nodes = <<>>
    /\ text = <<>>
    /\ text_nodes = <<>>
    /\ stage = 0
    /\ pc = "start"
    /\ result = None
    /\ error = None
    /\ stdout = <<>>
    /\ html_node = <<>>
    /\ scan_type = TEXT
    /\ scan = ScanInit

\* markdown_blocks = markdown_to_blocks(markdown)
Blocks ==
    /\ call = "markdown_to_html_node"
    /\ pc = "start"
    /\ markdown_blocks' = markdown_to_blocks(markdown)
    /\ pc' = "loop"
    /\ UNCHANGED <<call, text, text_nodes, stage, markdown, block_index, block_nodes,
                   result, error, stdout, html_node,
                   scan_type, scan>>

\* the block the loop is at
current_block == markdown_blocks[block_index + 1]

\* The loop is at a block of the given type
AtBlock(block_type) ==
    /\ call = "markdown_to_html_node"
    /\ pc = "loop"
    /\ block_index < Len(markdown_blocks)
    /\ block_to_block_type(current_block) = block_type

\* The end of an iteration whose branch had outcome r
Iteration(r) ==
    /\ IF r.error # None
       THEN /\ pc' = "raised"
            /\ error' = r.error
            /\ stdout' = stdout \o r.printed
            /\ UNCHANGED <<block_index, block_nodes>>
       ELSE /\ block_nodes' = Append(block_nodes, r.value)
            /\ block_index' = block_index + 1
            /\ UNCHANGED <<pc, error, stdout>>
    /\ UNCHANGED <<call, text, text_nodes, stage, markdown, markdown_blocks, result,
                   html_node,
                   scan_type, scan>>

Heading ==
    /\ AtBlock(HEADING)
    /\ Iteration(HeadingBlock(current_block))

Code ==
    /\ AtBlock(CODE)
    /\ Iteration(CodeBlock(current_block))

Quote ==
    /\ AtBlock(QUOTE)
    /\ Iteration(QuoteBlock(current_block))

OList ==
    /\ AtBlock(OLIST)
    /\ Iteration(OListBlock(current_block))

UList ==
    /\ AtBlock(ULIST)
    /\ Iteration(UListBlock(current_block))

Paragraph ==
    /\ AtBlock(PARAGRAPH)
    /\ Iteration(ParagraphBlock(current_block))

\* return ParentNode("div", block_nodes, None)
Return ==
    /\ call = "markdown_to_html_node"
    /\ pc = "loop"
    /\ block_index = Len(markdown_blocks)
    /\ result' = Some(ParentNode(Some("div"), Some(block_nodes), None))
    /\ pc' = "returned"
    /\ UNCHANGED <<call, text, text_nodes, stage, markdown, markdown_blocks,
                   block_index, block_nodes, error, stdout, html_node,
                   scan_type, scan>>

Next == Blocks \/ Heading \/ Code \/ Quote \/ OList \/ UList \/ Paragraph \/ Return

Spec == Init /\ [][Next]_vars

----------------------------------------------------------------------------
(* The inline syntax as the specification words it: a well-formed text is a  *)
(* run of ordinary characters, "!" and closed constructs: **bold**, _italic_, *)
(* a code span between backticks, [label](url) and ![label](url), whose       *)
(* contents are ordinary characters                                           *)

Specials == {"*", "_", Backtick, "[", "]", "(", ")", "!"}

\* s[i], 1-based, or "" beyond the end
At(s, i) == IF i >= 1 /\ i <= Len(s) THEN s[i] ELSE ""

RECURSIVE RunLen(_, _)
\* the length of the run of ordinary characters of s from position i on
RunLen(s, i) ==
    IF i <= Len(s) /\ s[i] \notin Specials THEN 1 + RunLen(s, i + 1) ELSE 0

Span(kind, t, url) == [kind |-> kind, text |-> t, url |-> url]

Parsed(spans) == [ok |-> TRUE, spans |-> spans]
NotWellFormed == [ok |-> FALSE, spans |-> <<>>]

\* spans, then the spans of the rest, unless the rest is not well-formed
Followed(spans, rest) == IF rest.ok THEN Parsed(spans \o rest.spans) ELSE NotWellFormed

RECURSIVE RefInline(_, _)
\* the spans of s from position i on, where s is well-formed
RefInline(s, i) ==
    IF i > Len(s) THEN Parsed(<<>>)
    ELSE IF s[i] \notin Specials \/ (s[i] = "!" /\ At(s, i + 1) # "[")
    THEN Followed(<< Span(TEXT, << s[i] >>, None) >>, RefInline(s, i + 1))
    ELSE IF s[i] = "*"
    THEN IF At(s, i + 1) = "*"
            /\ At(s, i + 2 + RunLen(s, i + 2)) = "*"
            /\ At(s, i + 3 + RunLen(s, i + 2)) = "*"
         THEN Followed(<< Span(BOLD_TEXT, SubSeq(s, i + 2, i + 1 + RunLen(s, i + 2)), None) >>,
                       RefInline(s, i + 4 + RunLen(s, i + 2)))
         ELSE NotWellFormed
    ELSE IF s[i] \in {"_", Backtick}
    THEN IF At(s, i + 1 + RunLen(s, i + 1)) = s[i]
         THEN Followed(<< Span(IF s[i] = "_" THEN ITALIC_TEXT ELSE CODE_TEXT,
                               SubSeq(s, i + 1, i + RunLen(s, i + 1)), None) >>,
                       RefInline(s, i + 2 + RunLen(s, i + 1)))
         ELSE NotWellFormed
    ELSE IF s[i] \in {"[", "!"}
    THEN LET open == IF s[i] = "!" THEN i + 1 ELSE i
             n == RunLen(s, open + 1)
             m == RunLen(s, open + 3 + n)
         IN  IF At(s, open + 1 + n) = "]" /\ At(s, open + 2 + n) = "("
                /\ At(s, open + 3 + n + m) = ")"
             THEN Followed(<< Span(IF s[i] = "!" THEN IMAGE_TEXT ELSE LINK_TEXT,
                                   SubSeq(s, open + 1, open + n),
                                   Some(SubSeq(s, open + 3 + n, open + 2 + n + m))) >>,
                           RefInline(s, open + 4 + n + m))
             ELSE NotWellFormed
    ELSE NotWellFormed

WellFormed(s) == RefInline(s, 1).ok

\* the texts of the spans, concatenated in order
SpanTexts(spans) == Concat([i \in 1..Len(spans) |-> spans[i].text])

\* s without its delimiter and marker characters and without its URLs
Stripped(s) == SpanTexts(RefInline(s, 1).spans)

\* text_to_textnodes has ended, by a return or by a raise
InlineDone == call = "text_to_textnodes" /\ pc \in {"returned", "raised"}

\* C1: for every well-formed text, text_to_textnodes returns spans whose texts,
\* concatenated in order, are the text without its delimiters, markers and URLs
C1_ConcatReproducesText ==
    (InlineDone /\ WellFormed(text))
        => (pc = "returned" /\ SpanTexts(result[1]) = Stripped(text))

\* every link and image among the spans has a label and a URL of at least one
\* character
NoEmptyPart(spans) ==
    \A i \in 1..Len(spans) :
        spans[i].kind \in {LINK_TEXT, IMAGE_TEXT}
            => (spans[i].text # <<>> /\ spans[i].url # Some(<<>>))

\* the link and image spans among the nodes, in order, as spans
LinksAndImages(nodes) ==
    LET found == SelectSeq(nodes, LAMBDA node : node.text_type \in {LINK_TEXT, IMAGE_TEXT})
    IN  [i \in 1..Len(found) |-> Span(found[i].text_type, found[i].text, found[i].url)]

\* C5: a [label](url) becomes an Image span exactly when its "[" is immediately
\* preceded by "!", and a Link span otherwise, also when the "[" opens the text
C5_ImageIffBang ==
    (InlineDone /\ WellFormed(text) /\ NoEmptyPart(RefInline(text, 1).spans))
        => /\ pc = "returned"
           /\ LinksAndImages(result[1])
                = SelectSeq(RefInline(text, 1).spans,
                            LAMBDA span : span.kind \in {LINK_TEXT, IMAGE_TEXT})

----------------------------------------------------------------------------
(* Block classification as the specification words it *)

Lines(b) == Split(b, NL)

IsHeading(b) == HeadingCount(b) \in 1..6 /\ At(b, HeadingCount(b) + 1) = " "

IsCode(lines) ==
    /\ Len(lines) > 1
    /\ StartsWith(lines[1], Fence)
    /\ StartsWith(lines[Len(lines)], Fence)

IsQuote(lines) == \A i \in 1..Len(lines) : At(lines[i], 1) = ">"

IsUnorderedList(lines) ==
    \A i \in 1..Len(lines) : At(lines[i], 1) = "-" /\ At(lines[i], 2) = " "

\* line i is the decimal numeral of i, then ". "
IsOrderedList(lines) ==
    \A i \in 1..Len(lines) :
        SubSeq(lines[i], 1, Min(Len(lines[i]), Len(Str(i)) + 2)) = Str(i) \o <<".", " ">>

\* the kind of the first satisfied rule, for a block b with the given lines
FirstRuleOf(b, lines) ==
    CASE IsHeading(b) -> HEADING
      [] ~IsHeading(b) /\ IsCode(lines) -> CODE
      [] ~IsHeading(b) /\ ~IsCode(lines) /\ IsQuote(lines) -> QUOTE
      [] ~IsHeading(b) /\ ~IsCode(lines) /\ ~IsQuote(lines) /\ IsUnorderedList(lines)
            -> ULIST
      [] ~IsHeading(b) /\ ~IsCode(lines) /\ ~IsQuote(lines) /\ ~IsUnorderedList(lines)
            /\ IsOrderedList(lines) -> OLIST
      [] OTHER -> PARAGRAPH

FirstRule(b) == FirstRuleOf(b, Lines(b))

\* markdown_to_html_node is past its call of markdown_to_blocks
BlocksDone == call = "markdown_to_html_node" /\ pc # "start"

\* C2: block_to_block_type returns the kind of the first satisfied rule in the
\* order Heading, Code, Quote, UnorderedList, OrderedList, and Paragraph when no
\* rule is satisfied; "1. a\n2. b" is OrderedList and "1. a\n3. b" is Paragraph
C2_FirstSatisfiedRule ==
    /\ block_to_block_type(markdown) = FirstRule(markdown)
    /\ \A k \in 1..Len(markdown_blocks) :
           block_to_block_type(markdown_blocks[k]) = FirstRule(markdown_blocks[k])
    /\ block_to_block_type(<<"1", ".", " ", "a", "\n", "2", ".", " ", "b">>) = OLIST
    /\ block_to_block_type(<<"1", ".", " ", "a", "\n", "3", ".", " ", "b">>) = PARAGRAPH

\* A numbered list of two lines was classified, and so was a block whose second
\* line skips a number
C2_Witness ==
    /\ BlocksDone
    /\ block_index = Len(markdown_blocks)
    /\ \E k \in 1..Len(markdown_blocks) :
           /\ Len(Lines(markdown_blocks[k])) = 2
           /\ StartsWith(markdown_blocks[k], <<"1", ".", " ">>)
           /\ StartsWith(Lines(markdown_blocks[k])[2], <<"3", ".", " ">>)
           /\ block_to_block_type(markdown_blocks[k]) = PARAGRAPH
           /\ block_nodes[k].tag = Some("p")

\* C3: every block markdown_to_blocks returns is non-empty and has no leading
\* or trailing whitespace
C3_BlocksTrimmedNonEmpty ==
    BlocksDone =>
        \A k \in 1..Len(markdown_blocks) :
            /\ markdown_blocks[k] # <<>>
            /\ markdown_blocks[k][1] \notin Whitespace
            /\ markdown_blocks[k][Len(markdown_blocks[k])] \notin Whitespace

\* C4: a document with a block that begins with more than 6 "#" followed by a
\* space does not get a tree: its conversion raises the too-many-markers error
C4_TooManyHeadingMarkers ==
    (call = "markdown_to_html_node" /\ pc = "returned") =>
        \A k \in 1..Len(markdown_blocks) :
            ~(HeadingCount(markdown_blocks[k]) > 6
              /\ At(markdown_blocks[k], HeadingCount(markdown_blocks[k]) + 1) = " ")

----------------------------------------------------------------------------
(* The delimiter stages as the specification words them *)

RECURSIVE Occurrences(_, _, _)
\* the start positions, from i on, of the left-to-right non-overlapping
\* occurrences of d in s
Occurrences(s, d, i) ==
    IF i + Len(d) - 1 > Len(s) THEN <<>>
    ELSE IF SubSeq(s, i, i + Len(d) - 1) = d
    THEN << i >> \o Occurrences(s, d, i + Len(d))
    ELSE Occurrences(s, d, i + 1)

\* piece k (from 0) of s around the occurrences of d at the positions occ
PieceAt(s, d, occ, k) ==
    SubSeq(s, IF k = 0 THEN 1 ELSE occ[k] + Len(d),
              IF k = Len(occ) THEN Len(s) ELSE occ[k + 1] - 1)

\* the non-empty pieces in order: even-indexed Plain, odd-indexed of the kind
PieceNodes(s, d, occ, kind) ==
    LET pieces == [k \in 1..(Len(occ) + 1) |->
                      TextNode(PieceAt(s, d, occ, k - 1),
                               IF (k - 1) % 2 = 0 THEN TEXT ELSE kind, None)]
    IN  SelectSeq(pieces, LAMBDA piece : piece.text # <<>>)

\* what a delimiter stage returns for nodes whose Plain spans are all balanced
ExpectedDelimiter(nodes, d, kind) ==
    Concat([i \in 1..Len(nodes) |->
               IF nodes[i].text_type = TEXT
               THEN PieceNodes(nodes[i].text, d, Occurrences(nodes[i].text, d, 1), kind)
               ELSE << nodes[i] >>])

StageDelimiter(n) == << <<"*", "*">>, <<"_">>, << Backtick >> >>[n]
StageKind(n) == << BOLD_TEXT, ITALIC_TEXT, CODE_TEXT, IMAGE_TEXT, LINK_TEXT >>[n]

C6_Step(n) ==
    AtStage(n - 1) =>
        /\ pc' = "raised"
             <=> \E i \in 1..Len(text_nodes) :
                    /\ text_nodes[i].text_type = TEXT
                    /\ Len(Occurrences(text_nodes[i].text, StageDelimiter(n), 1)) % 2 = 1
        /\ pc' = "raised" => error' = Some(UnclosedMsg)
        /\ pc' # "raised"
             => text_nodes' = ExpectedDelimiter(text_nodes, StageDelimiter(n), StageKind(n))

\* C6: a delimiter stage raises the unclosed-span error exactly when some Plain
\* span of its input holds an odd number of occurrences of the delimiter, and
\* otherwise returns, per Plain span, the non-empty pieces in order, even-indexed
\* pieces Plain and odd-indexed pieces of the kind of the stage
C6_UnclosedIffOdd == [][C6_Step(1) /\ C6_Step(2) /\ C6_Step(3)]_vars

\* The italic stage has split a Plain span that followed a Bold span
C6_Witness ==
    /\ call = "text_to_textnodes"
    /\ stage = 2
    /\ \E i, j, k \in 1..Len(text_nodes) :
           /\ i < j /\ j < k
           /\ text_nodes[i].text_type = BOLD_TEXT
           /\ text_nodes[j].text_type = TEXT
           /\ text_nodes[k].text_type = ITALIC_TEXT

----------------------------------------------------------------------------
(* The link and image scanner as the specification words it *)

RECURSIVE LeftOpen(_, _, _, _)
\* Whether the scan of s from position i on, in the given state, ends inside a
\* label or a URL. bang: the opener is "![" and not "["
LeftOpen(s, i, state, bang) ==
    IF i > Len(s) THEN state # "plain"
    ELSE IF state = "plain"
    THEN IF bang /\ s[i] = "!" /\ At(s, i + 1) = "["
         THEN LeftOpen(s, i + 2, "label", bang)
         ELSE IF ~bang /\ s[i] = "["
         THEN LeftOpen(s, i + 1, "label", bang)
         ELSE LeftOpen(s, i + 1, "plain", bang)
    ELSE IF state = "label"
    THEN IF s[i] = "]" /\ At(s, i + 1) = "("
         THEN LeftOpen(s, i + 2, "url", bang)
         ELSE LeftOpen(s, i + 1, "label", bang)
    ELSE IF s[i] = ")"
         THEN LeftOpen(s, i + 1, "plain", bang)
         ELSE LeftOpen(s, i + 1, "url", bang)

C7_Step(n) ==
    AtStage(n - 1) =>
        /\ pc' = "raised"
             <=> \E i \in 1..Len(text_nodes) :
                    /\ text_nodes[i].text_type = TEXT
                    /\ LeftOpen(text_nodes[i].text, 1, "plain", n = 4)
        /\ pc' = "raised" => (error' = Some(MalformedMsg) /\ result' = None)

\* C7: the image stage and the link stage raise the malformed-markdown error
\* exactly when, in some Plain span, an opener is not closed by a later "]("
\* and a later ")", and then return no spans
C7_MalformedIffUnclosed == [][C7_Step(4) /\ C7_Step(5)]_vars

----------------------------------------------------------------------------
(* The tree of markdown_to_html_node *)

\* the tag of the node of a block of the given kind
BlockTag(b, kind) ==
    CASE kind = HEADING -> <<"h1", "h2", "h3", "h4", "h5", "h6">>[HeadingCount(b)]
      [] kind = CODE -> "pre"
      [] kind = QUOTE -> "blockquote"
      [] kind = ULIST -> "ul"
      [] kind = OLIST -> "ol"
      [] kind = PARAGRAPH -> "p"

IsParent(node, tag) ==
    /\ node.class = "ParentNode"
    /\ node.tag = Some(tag)
    /\ node.children # None

\* C8: a returned tree is a Parent tagged div whose children are one Parent per
\* block of markdown_to_blocks, in block order, each tagged after the
\* classification of its block
C8_DivOfBlockNodes ==
    (call = "markdown_to_html_node" /\ pc = "returned") =>
        /\ result # None
        /\ IsParent(result[1], "div")
        /\ Len(result[1].children[1]) = Len(markdown_to_blocks(markdown))
        /\ \A i \in 1..Len(result[1].children[1]) :
               IsParent(result[1].children[1][i],
                        BlockTag(markdown_to_blocks(markdown)[i],
                                 block_to_block_type(markdown_to_blocks(markdown)[i])))

\* A tree of two blocks was returned, a heading of level 2 and a paragraph
C8_Witness ==
    /\ call = "markdown_to_html_node"
    /\ pc = "returned"
    /\ Len(result[1].children[1]) = 2
    /\ result[1].children[1][1].tag = Some("h2")
    /\ result[1].children[1][2].tag = Some("p")

\* the text between the opening fence line and the closing fence line of b
Interior(b, lines) == SubSeq(b, Len(lines[1]) + 2, Len(b) - Len(lines[Len(lines)]))

\* C9: the node of a Code block is a pre Parent over one code Parent over one
\* untagged Leaf whose value is the block without its opening fence line and
\* its closing fence line
C9_CodeVerbatim ==
    call = "markdown_to_html_node" =>
        \A k \in 1..Len(block_nodes) :
            block_to_block_type(markdown_blocks[k]) = CODE =>
                block_nodes[k]
                  = ParentNode(Some("pre"),
                               Some(<< ParentNode(Some("code"),
                                                  Some(<< LeafNode(None,
                                                                   Some(Interior(markdown_blocks[k],
                                                                                 Lines(markdown_blocks[k]))),
                                                                   None) >>),
                                                  None) >>),
                               None)

\* line i of a list without its marker: "- ", or the numeral of i and ". "
Unmarked(line, i, kind) ==
    SubSeq(line, IF kind = OLIST THEN Len(Str(i)) + 3 ELSE 3, Len(line))

\* the li node of line i of a list block
ListItem(line, i, kind) ==
    ParentNode(Some("li"),
               Some(ChildNodes(text_to_textnodes(Unmarked(line, i, kind)).value)),
               None)

\* the node of a list block with the given lines
ListNode(lines, kind) ==
    ParentNode(Some(IF kind = OLIST THEN "ol" ELSE "ul"),
               Some([i \in 1..Len(lines) |-> ListItem(lines[i], i, kind)]),
               None)

\* C10: the node of a list block of n lines is an ol or ul Parent with n li
\* Parent children in line order, the i-th over the leaves of text_to_textnodes
\* of line i without its marker
C10_ListItems ==
    call = "markdown_to_html_node" =>
        \A k \in 1..Len(block_nodes) :
            block_to_block_type(markdown_blocks[k]) \in {OLIST, ULIST} =>
                block_nodes[k] = ListNode(Lines(markdown_blocks[k]),
                                          block_to_block_type(markdown_blocks[k]))

\* A numbered list of at least ten lines was converted
C10_Witness ==
    /\ call = "markdown_to_html_node"
    /\ pc = "returned"
    /\ \E k \in 1..Len(block_nodes) :
           /\ block_nodes[k].tag = Some("ol")
           /\ Len(block_nodes[k].children[1]) >= 10

----------------------------------------------------------------------------
(* HTMLNode.props_to_html, LeafNode.to_html and ParentNode.to_html *)

\* The characters of a tag or of an attribute key, which the nodes hold as a name
Chars(name) ==
    CASE name = "None" -> <<"N", "o", "n", "e">>
      [] name = "div" -> <<"d", "i", "v">>
      [] name = "p" -> <<"p">>
      [] name = "pre" -> <<"p", "r", "e">>
      [] name = "code" -> <<"c", "o", "d", "e">>
      [] name = "blockquote" -> <<"b", "l", "o", "c", "k", "q", "u", "o", "t", "e">>
      [] name = "ul" -> <<"u", "l">>
      [] name = "ol" -> <<"o", "l">>
      [] name = "li" -> <<"l", "i">>
      [] name = "b" -> <<"b">>
      [] name = "i" -> <<"i">>
      [] name = "a" -> <<"a">>
      [] name = "img" -> <<"i", "m", "g">>
      [] name = "h0" -> <<"h", "0">>
      [] name = "h1" -> <<"h", "1">>
      [] name = "h2" -> <<"h", "2">>
      [] name = "h3" -> <<"h", "3">>
      [] name = "h4" -> <<"h", "4">>
      [] name = "h5" -> <<"h", "5">>
      [] name = "h6" -> <<"h", "6">>
      [] name = "href" -> <<"h", "r", "e", "f">>
      [] name = "src" -> <<"s", "r", "c">>
      [] name = "alt" -> <<"a", "l", "t">>
      [] name = "target" -> <<"t", "a", "r", "g", "e", "t">>

NoTagMsg == "No tag"
NoChildrenMsg == "No children"
\* the message of the ValueError that LeafNode.to_html raises without arguments
NoValueMsg == ""

\* f"{self.props[key]}" of an attribute value, where None formats as "None"
FormatValue(value) == IF value = None THEN Chars("None") ELSE value[1]

\* f" {key}='{self.props[key]}'"
PropToHtml(prop) ==
    <<" ">> \o Chars(prop[1]) \o <<"=", "'">> \o FormatValue(prop[2]) \o <<"'">>

\* props_to_html with the attributes in reverse order
props_to_html_reversed(props) ==
    IF props # None
    THEN Concat([i \in 1..Len(props[1]) |-> PropToHtml(props[1][Len(props[1]) + 1 - i])])
    ELSE <<>>

props_to_html(props) ==
    IF props # None
    THEN Concat([i \in 1..Len(props[1]) |-> PropToHtml(props[1][i])])
    ELSE <<>>

OpenTag(node) == <<"<">> \o Chars(node.tag[1]) \o props_to_html(node.props) \o <<">">>
CloseTag(tag) == <<"<", "/">> \o Chars(tag) \o <<">">>

LeafNode_to_html(node) ==
    IF node.value = None
    THEN Raised(NoValueMsg, <<>>)
    ELSE IF node.tag = None
    THEN Returned(node.value[1])
    ELSE Returned(OpenTag(node) \o node.value[1] \o CloseTag(node.tag[1]))

\* ParentMissing with the test of the children before the test of the tag
ParentMissing_children_first(node) ==
    IF node.children = None THEN Some(NoChildrenMsg)
    ELSE IF node.tag = None THEN Some(NoTagMsg)
    ELSE None

\* The message of the error that ParentNode.to_html raises before it renders
\* anything, if it raises one
ParentMissing(node) ==
    IF node.tag = None THEN Some(NoTagMsg)
    ELSE IF node.children = None THEN Some(NoChildrenMsg)
    ELSE None

RECURSIVE to_html(_)
RECURSIVE ChildrenLoop(_, _, _)

\* After child.to_html() of the first of children had outcome r: the raise
\* leaves to_html, the rendering is appended to result
ChildNext(children, tag, rendered, r) ==
    IF r.error # None THEN r
    ELSE ChildrenLoop(Tail(children), tag, rendered \o r.value)

\* the loop over self.children, with result as built so far, and the return
ChildrenLoop(children, tag, rendered) ==
    IF children = <<>> THEN Returned(rendered \o CloseTag(tag))
    ELSE ChildNext(children, tag, rendered, to_html(Head(children)))

ParentNode_to_html(node) ==
    IF ParentMissing(node) # None
    THEN Raised(ParentMissing(node)[1], <<>>)
    ELSE ChildrenLoop(node.children[1], node.tag[1], OpenTag(node))

\* node.to_html(), by the class of node
to_html(node) ==
    IF node.class = "LeafNode" THEN LeafNode_to_html(node) ELSE ParentNode_to_html(node)

----------------------------------------------------------------------------
(* Inputs of to_html: leaves, and parents of up to MaxChildren children *)

HrefTarget == << <<"href", Some(<<"x">>)>>, <<"target", Some(<<"y">>)>> >>

LeafPool ==
    { LeafNode(None, Some(<<"t">>), None),
      LeafNode(None, Some(<<"t">>), Some(HrefTarget)),
      LeafNode(None, None, None),
      LeafNode(Some("b"), None, None),
      LeafNode(Some("b"), Some(<<"t">>), None),
      LeafNode(Some("b"), Some(<<"t">>), Some(<<>>)),
      LeafNode(Some("a"), Some(<<"t">>), Some(HrefTarget)),
      LeafNode(Some("a"), Some(<<"t">>), Some(<< <<"href", None>> >>)),
      LeafNode(Some("img"), Some(<<>>),
               Some(<< <<"src", Some(<<"u">>)>>, <<"alt", Some(<<>>)>> >>)) }

\* the nodes a parent of the inputs has as children
ChildPool ==
    { LeafNode(None, Some(<<"t">>), None),
      LeafNode(Some("b"), None, None),
      ParentNode(Some("p"), Some(<< LeafNode(Some("i"), Some(<<"g">>), None) >>), None),
      ParentNode(Some("ul"), Some(<<>>), None),
      ParentNode(Some("p"), Some(<< LeafNode(Some("b"), None, None) >>), None),
      ParentNode(Some("p"), None, None),
      ParentNode(None, Some(<< LeafNode(None, Some(<<"t">>), None) >>), None) }

ParentPool ==
    { ParentNode(tag, children, props) :
        tag \in {None, Some("div")},
        children \in {None} \cup { Some(c) : c \in SegSeqs(ChildPool, MaxChildren) },
        props \in {None, Some(HrefTarget)} }

----------------------------------------------------------------------------
(* The call html_node.to_html() *)

InitRender ==
    /\ call = "to_html"
    /\ html_node \in LeafPool \cup ParentPool
    /\ pc = "start"
    /\ result = None
    /\ error = None
    /\ stdout = <<>>
    /\ text = <<>>
    /\ text_nodes = <<>>
    /\ stage = 0
    /\ markdown = <<>>
    /\ markdown_blocks = <<>>
    /\ block_index = 0
    /\ block_nodes = <<>>
    /\ scan_type = TEXT
    /\ scan = ScanInit

\* The end of the call with outcome r
ToHtmlEnd(r) ==
    /\ IF r.error # None
       THEN /\ pc' = "raised"
            /\ error' = r.error
            /\ UNCHANGED result
       ELSE /\ pc' = "returned"
            /\ result' = Some(r.value)
            /\ UNCHANGED error
    /\ stdout' = stdout \o r.printed
    /\ UNCHANGED <<call, text, text_nodes, stage, markdown, markdown_blocks,
                   block_index, block_nodes, html_node,
                   scan_type, scan>>

LeafToHtml ==
    /\ call = "to_html" /\ pc = "start" /\ html_node.class = "LeafNode"
    /\ ToHtmlEnd(LeafNode_to_html(html_node))

ParentToHtml ==
    /\ call = "to_html" /\ pc = "start" /\ html_node.class = "ParentNode"
    /\ ToHtmlEnd(ParentNode_to_html(html_node))

NextRender == LeafToHtml \/ ParentToHtml

SpecRender == InitRender /\ [][NextRender]_vars

----------------------------------------------------------------------------
(* The renderer as the specification words it *)

\* to_html has ended, by a return or by a raise
RenderDone == call = "to_html" /\ pc \in {"returned", "raised"}

RECURSIVE Broken(_)
\* node or one of its descendants lacks what its rendering needs: a Leaf its
\* value, a Parent its tag or its children
Broken(node) ==
    IF node.class = "LeafNode" THEN node.value = None
    ELSE \/ node.tag = None
         \/ node.children = None
         \/ \E i \in 1..Len(node.children[1]) : Broken(node.children[1][i])

\* the renderings of the children, concatenated in children order
ChildrenHtml(children) == Concat([i \in 1..Len(children) |-> to_html(children[i]).value])

\* C11: ParentNode.to_html raises the missing-tag error when the tag is absent,
\* also when the children are absent too; raises the missing-children error when
\* only the children are absent; raises when a descendant cannot be rendered;
\* and otherwise returns the opening tag with the attributes, the renderings of
\* the children in order and the closing tag, "<tag></tag>" for no children
C11_ParentRender ==
    (RenderDone /\ html_node.class = "ParentNode") =>
        /\ html_node.tag = None => (pc = "raised" /\ error = Some(NoTagMsg))
        /\ (html_node.tag # None /\ html_node.children = None)
               => (pc = "raised" /\ error = Some(NoChildrenMsg))
        /\ pc = "raised" <=> Broken(html_node)
        /\ pc = "raised" => result = None
        /\ pc = "returned"
               => result = Some(OpenTag(html_node) \o ChildrenHtml(html_node.children[1])
                                \o CloseTag(html_node.tag[1]))
        /\ (pc = "returned" /\ html_node.children = Some(<<>>) /\ html_node.props = None)
               => result = Some(<<"<", "d", "i", "v", ">", "<", "/", "d", "i", "v", ">">>)

\* A parent without tag and without children was rendered, and the error is the
\* missing tag
C11_Witness ==
    /\ RenderDone
    /\ html_node.class = "ParentNode"
    /\ html_node.tag = None
    /\ html_node.children = None
    /\ error = Some(NoTagMsg)

\* C12: LeafNode.to_html raises the missing-value error when the value is
\* absent, returns the value alone when the tag is absent, and otherwise returns
\* "<tag ATTRS>value</tag>", ATTRS being a space and key='value' per attribute in
\* insertion order, and empty for absent or empty attributes
C12_LeafRender ==
    (RenderDone /\ html_node.class = "LeafNode") =>
        /\ html_node.value = None => (pc = "raised" /\ error = Some(NoValueMsg))
        /\ (html_node.value # None /\ html_node.tag = None)
               => (pc = "returned" /\ result = html_node.value)
        /\ (html_node.value # None /\ html_node.tag # None)
               => /\ pc = "returned"
                  /\ result
                       = Some(<<"<">> \o Chars(html_node.tag[1])
                              \o (IF html_node.props \in {None, Some(<<>>)} THEN <<>>
                                  ELSE Concat([i \in 1..Len(html_node.props[1]) |->
                                           <<" ">> \o Chars(html_node.props[1][i][1])
                                           \o <<"=", "'">>
                                           \o FormatValue(html_node.props[1][i][2])
                                           \o <<"'">>]))
                              \o <<">">> \o html_node.value[1]
                              \o <<"<", "/">> \o Chars(html_node.tag[1]) \o <<">">>)
        /\ html_node = LeafNode(Some("a"), Some(<<"t">>), Some(HrefTarget))
               => result = Some(<<"<", "a", " ", "h", "r", "e", "f", "=", "'", "x", "'",
                                  " ", "t", "a", "r", "g", "e", "t", "=", "'", "y", "'",
                                  ">", "t", "<", "/", "a", ">">>)

\* A leaf with the attributes href and target, in this order, was rendered
C12_Witness ==
    /\ RenderDone
    /\ pc = "returned"
    /\ html_node = LeafNode(Some("a"), Some(<<"t">>), Some(HrefTarget))

----------------------------------------------------------------------------
(* More of the inline parser as the specification words it *)

\* s holds none of the delimiter characters
PlainText(s) == \A i \in 1..Len(s) : s[i] \notin Specials

\* C13: for every text without delimiter characters, the empty text included,
\* text_to_textnodes returns exactly one span, Plain, with the text and no url
C13_PlainTextOneSpan ==
    (InlineDone /\ PlainText(text))
        => (pc = "returned" /\ result = Some(<< TextNode(text, TEXT, None) >>))

----------------------------------------------------------------------------
(* The call split_image_or_link_nodes([TextNode(text, TEXT)], scan_type), one *)
(* step per iteration of the while loop                                      *)

ScanPool ==
    { <<"a">>, <<"x">>, <<"!">>, <<"[">>, <<"]">>, <<"(">>, <<")">>,
      <<"[", "a", "]">>, <<"(", "u", ")">>, <<"!", "[", "a", "]", "(", "u", ")">> }

ScanTexts == { Concat(segs) : segs \in SegSeqs(ScanPool, MaxSegs) }

InitScan ==
    /\ call = "split_image_or_link_nodes"
    /\ text \in ScanTexts
    /\ scan_type \in {IMAGE_TEXT, LINK_TEXT}
    /\ scan = ScanInit
    /\ pc = "scan"
    /\ result = None
    /\ error = None
    /\ stdout = <<>>
    /\ text_nodes = << TextNode(text, TEXT, None) >>
    /\ stage = 0
    /\ markdown = <<>>
    /\ markdown_blocks = <<>>
    /\ block_index = 0
    /\ block_nodes = <<>>
    /\ html_node = <<>>

\* The while loop is at an iteration
InLoop == call = "split_image_or_link_nodes" /\ pc = "scan" /\ scan.text_index < Len(text)

\* One iteration of the while loop
Iterate ==
    /\ scan' = ScanStep(text, scan_type, scan)
    /\ UNCHANGED <<call, text, text_nodes, stage, markdown, markdown_blocks, block_index,
                   block_nodes, pc, result, error, stdout, html_node, scan_type>>

\* the branch if in_link_text
InLinkText ==
    /\ InLoop /\ scan.in_link_text
    /\ Iterate

\* the branch elif in_link_url
InLinkUrl ==
    /\ InLoop /\ ~scan.in_link_text /\ scan.in_link_url
    /\ Iterate

\* the branch else
InPlainText ==
    /\ InLoop /\ ~scan.in_link_text /\ ~scan.in_link_url
    /\ Iterate

\* The end of the call after the while loop, with outcome r
ScanReturn(r) ==
    /\ IF r.error # None
       THEN /\ pc' = "raised"
            /\ error' = r.error
            /\ UNCHANGED result
       ELSE /\ pc' = "returned"
            /\ result' = Some(r.value)
            /\ UNCHANGED error
    /\ stdout' = stdout \o r.printed
    /\ UNCHANGED <<call, text, text_nodes, stage, markdown, markdown_blocks, block_index,
                   block_nodes, html_node, scan_type, scan>>

AfterLoop ==
    /\ call = "split_image_or_link_nodes" /\ pc = "scan" /\ scan.text_index >= Len(text)
    /\ ScanReturn(ScanEnd(text_nodes[1], scan))

NextScan == InLinkText \/ InLinkUrl \/ InPlainText \/ AfterLoop

SpecScan == InitScan /\ [][NextScan]_vars

\* The interpreter runs the loop on: a step that can be taken is taken
SpecScanLive == SpecScan /\ WF_vars(NextScan)

----------------------------------------------------------------------------
(* The scanner as the specification words it *)

\* the last of the nodes the scan has appended
LastNode(st) == st.current_nodes[Len(st.current_nodes)]

C14_Step ==
    InLoop =>
        /\ (scan.in_link_text /\ scan'.in_link_url)
               => (At(text, scan.text_index + 1) = "]" /\ At(text, scan.text_index + 2) = "(")
        /\ (scan.in_link_text /\ At(text, scan.text_index + 1) = "]"
                /\ At(text, scan.text_index + 2) # "(")
               => scan'.in_link_text
        /\ (scan.in_link_url /\ ~scan'.in_link_url)
               => \E p \in 2..(scan.text_index + 1) :
                      /\ text[p - 1] = "]" /\ text[p] = "("
                      /\ \A q \in (p + 1)..scan.text_index : text[q] # ")"
                      /\ LastNode(scan').url = Some(SubSeq(text, p + 1, scan.text_index))

\* C14: the scanner leaves the label for the URL only on a "]" that is
\* immediately followed by "(", a "]" followed by anything else does not end the
\* label, and the URL captured is the text between that "(" and the next ")"
C14_LabelEndsOnBracketParen == [][C14_Step]_vars

\* the scan has ended, by a return or by a raise
ScanDone == call = "split_image_or_link_nodes" /\ pc \in {"returned", "raised"}

\* C19: the scan index strictly increases on every iteration of the while loop,
\* in each of its three states, and every call ends: it returns spans or raises
\* the malformed-markdown error
C19_ScanTerminates ==
    /\ [][InLoop => scan'.text_index > scan.text_index]_vars
    /\ <>ScanDone
    /\ [](ScanDone => (pc = "raised" => error = Some(MalformedMsg)))

\* A scan that went through a label and a URL and back to plain text has returned
C19_Witness ==
    /\ ScanDone
    /\ pc = "returned"
    /\ \E i, j \in 1..Len(result[1]) :
           /\ i < j
           /\ result[1][i].text_type = LINK_TEXT
           /\ result[1][j].text_type = TEXT

\* what the stage of number n makes of the nodes, each taken alone: a node that
\* is not Plain is kept, a Plain node gives what the stage returns for it
PerNode(n, nodes) ==
    Concat([i \in 1..Len(nodes) |->
               IF nodes[i].text_type # TEXT THEN << nodes[i] >>
               ELSE ApplyStage(n, << nodes[i] >>).value])

C15_Step ==
    (call = "text_to_textnodes" /\ pc = "stages" /\ pc' # "raised") =>
        /\ stage' = stage + 1
        /\ text_nodes' = PerNode(stage + 1, text_nodes)
        /\ SelectSeq(text_nodes', LAMBDA node : node.text_type \notin {TEXT, StageKind(stage + 1)})
             = SelectSeq(text_nodes, LAMBDA node : node.text_type # TEXT)

\* C15: text_to_textnodes applies the stages in the order bold, italic, code,
\* image, link, and every stage passes each span that is not Plain to its
\* output as it is and where it is; only Plain spans are split
C15_NonPlainUntouched == [][C15_Step]_vars

\* The image stage and the link stage have passed on a Bold span, and the link
\* stage has put a Link span after it
C15_Witness ==
    /\ call = "text_to_textnodes"
    /\ pc = "returned"
    /\ \E i, j \in 1..Len(text_nodes) :
           /\ i < j
           /\ text_nodes[i].text_type = BOLD_TEXT
           /\ text_nodes[j].text_type = LINK_TEXT

----------------------------------------------------------------------------
(* More of the tree of markdown_to_html_node as the specification words it *)

\* the first of the lines starts with the code fence and the last does not
Unterminated(lines) ==
    StartsWith(lines[1], Fence) /\ ~StartsWith(lines[Len(lines)], Fence)

\* C16: a block whose first line starts with the code fence and whose last line
\* does not is classified Paragraph, not Code, and markdown_to_html_node makes a
\* p node of it and does not fail on it
C16_UnterminatedFenceIsParagraph ==
    BlocksDone =>
        \A k \in 1..Len(markdown_blocks) :
            Unterminated(Lines(markdown_blocks[k])) =>
                /\ block_to_block_type(markdown_blocks[k]) = PARAGRAPH
                /\ k <= Len(block_nodes) => block_nodes[k].tag = Some("p")
                /\ ~(pc = "raised" /\ block_index = k - 1)

RECURSIVE LeavesOf(_)
\* the leaves of the tree of node, in order
LeavesOf(node) ==
    IF node.class = "LeafNode" THEN << node >>
    ELSE Concat([i \in 1..Len(node.children[1]) |-> LeavesOf(node.children[1][i])])

\* C17: in a returned tree every Leaf has a value, and a Leaf whose value is the
\* empty string is an img leaf
C17_EmptyValueOnlyImg ==
    (call = "markdown_to_html_node" /\ pc = "returned") =>
        \A i \in 1..Len(LeavesOf(result[1])) :
            /\ LeavesOf(result[1])[i].value # None
            /\ LeavesOf(result[1])[i].value = Some(<<>>)
                   => LeavesOf(result[1])[i].tag = Some("img")

----------------------------------------------------------------------------
(* The effects of the conversion *)

\* C18: on every path of text_to_textnodes, the path that raises the malformed
\* link or image error included, nothing is written to the output
C18_NothingWritten == InlineDone => stdout = <<>>

====
